---------------------------- MODULE Spec2Model ----------------------------
(***************************************************************************)
(* A model of the JSONQL engine of src/parser.ts: a GraphQL-syntax query   *)
(* over JSON documents linked by {"$ref": "<path>#<fragment>"} objects.    *)
(*                                                                         *)
(* A JSON value is a tagged record.  A string is a sequence of tokens, a   *)
(* token being a maximal run of characters between the separators "#" and  *)
(* "/", which are tokens of their own: "/p1#/house/city" is                *)
(* <<"/", "p1", "#", "/", "house", "/", "city">>.  An object is a function *)
(* from its own keys to values; Object.keys lists them in KeyOrder.        *)
(***************************************************************************)
EXTENDS Integers, Sequences, FiniteSets, TLC

VARIABLES
    maxDepth,     \* JSONQL.maxDepth
    enableCache,  \* JSONQL.enableCache
    cache,        \* JSONQL.cache: reference string -> resolved value
    visitedRefs,  \* JSONQL.visitedRefs
    queries,      \* how many calls of query the caller has made
    last,         \* the last public call and what it gave back
    pool,         \* the promises of the calls in flight
    script,       \* the calls of query the caller has yet to make
    dirtyRefs     \* the references resolveRef was entered for while
                  \* visitedRefs held a member

vars == <<maxDepth, enableCache, cache, visitedRefs, queries, last,
          pool, script, dirtyRefs>>

---------------------------------------------------------------------------
(* JSON values (type JSONValue) and the two non-JSON values of JavaScript  *)
(* the code can come to hold: undefined, and a function inherited from     *)
(* Object.prototype.                                                       *)

Null == [t |-> "null"]
Bool(b) == [t |-> "bool", b |-> b]
Num(n) == [t |-> "num", n |-> n]
Str(s) == [t |-> "str", s |-> s]
Arr(a) == [t |-> "arr", a |-> a]
Obj(o) == [t |-> "obj", o |-> o]
Undefined == [t |-> "undefined"]
Fn == [t |-> "function"]

EmptyObj == Obj(<<>>)
EmptySel == <<>>

\* The mapping with the entries <<key, value>> given
FromEntries(entries) ==
    [k \in {entries[i][1] : i \in DOMAIN entries} |->
        entries[CHOOSE i \in DOMAIN entries : entries[i][1] = k][2]]

\* The object literal { k1: v1, ..., kn: vn }
Object(entries) == Obj(FromEntries(entries))

\* {"$ref": s}
Ref(s) == Obj("$ref" :> Str(s))

\* typeof v === "object" && v !== null
IsObjectType(v) == v.t \in {"obj", "arr"}

\* The members of Object.prototype (and of Array.prototype) among the keys
\* the model uses: the `in` operator and a property read see them on every
\* object.
ProtoKeys == {"constructor"}

\* The order in which Object.keys and for-in list the own keys of the
\* objects of the model.
KeyOrder ==
    << "$ref", "title", "author", "tags", "books", "info", "more", "label",
       "born", "self", "pub", "house", "city", "list", "constructor",
       "gone", "bad", "fragok", "fragmiss", "fragnon", "fragidx", "hash",
       "loop", "s1", "s2", "s3", "s4", "s5", "s6",
       "o1", "o2", "o3", "o4", "o5", "o6" >>

SortKeys(S) == SelectSeq(KeyOrder, LAMBDA k : k \in S)

\* key in v, for v an object or an array
HasProp(v, key) ==
    \/ key \in ProtoKeys
    \/ v.t = "obj" /\ key \in DOMAIN v.o
    \/ v.t = "arr" /\ (key = "length" \/ \E i \in 0..(Len(v.a) - 1) : ToString(i) = key)

\* v[key], for v an object or an array
Get(v, key) ==
    IF v.t = "obj" /\ key \in DOMAIN v.o THEN v.o[key]
    ELSE IF v.t = "arr" /\ key = "length" THEN Num(Len(v.a))
    ELSE IF v.t = "arr" /\ \E i \in 0..(Len(v.a) - 1) : ToString(i) = key
         THEN v.a[(CHOOSE i \in 0..(Len(v.a) - 1) : ToString(i) = key) + 1]
    ELSE IF key \in ProtoKeys THEN Fn
    ELSE Undefined

\* String.prototype.split(sep)
RECURSIVE split(_, _)
split(s, sep) ==
    IF \E i \in 1..Len(s) : s[i] = sep
    THEN LET i == CHOOSE i \in 1..Len(s) :
                      s[i] = sep /\ \A j \in 1..(i - 1) : s[j] # sep
         IN  <<SubSeq(s, 1, i - 1)>> \o split(SubSeq(s, i + 1, Len(s)), sep)
    ELSE <<s>>

\* The property key a fragment segment names: the segment holds no
\* separator, so it is one token, or the empty string.
SegmentKey(seg) == IF seg = <<>> THEN "" ELSE seg[1]

---------------------------------------------------------------------------
(* The documents.                                                          *)

MaxChain == 4
MaxOptDepth == 3
DefaultMaxDepth == 10

\* A chain of n direct references: file <<kind, n>> holds a reference to
\* file <<kind, n-1>>, and file <<kind, 0>> holds the final target.
ChainPath(kind, n) == <<kind \o ToString(n)>>

ChainFiles(kind, target) ==
    << <<ChainPath(kind, 0), [ok |-> TRUE, json |-> target]>> >>
    \o [n \in 1..MaxChain |->
           <<ChainPath(kind, n), [ok |-> TRUE, json |-> Ref(ChainPath(kind, n - 1))]>>]

BooksDoc ==
    Object(<<
        <<"books", Arr(<< Object(<< <<"title", Str(<<"1984">>)>>,
                                    <<"author", Ref(<<"/", "a1">>)>>,
                                    <<"constructor", Ref(<<"/", "big">>)>> >>),
                          Object(<< <<"title", Str(<<"Gatsby">>)>>,
                                    <<"author", Ref(<<"/", "a1">>)>>,
                                    <<"pub", Ref(<<"p1", "#", "/", "house">>)>> >>) >>)>>,
        <<"tags", Arr(<< Str(<<"x">>), Object(<< <<"title", Str(<<"t">>)>> >>),
                         Arr(<<Num(1)>>) >>)>>,
        <<"info", Object(<< <<"title", Str(<<"i">>)>>,
                            <<"more", Object(<< <<"title", Str(<<"m">>)>> >>)>>,
                            <<"pub", Ref(<<"/", "p1">>)>> >>)>>,
        <<"label", Str(<<"shop">>)>>,
        <<"born", Null>> >>)

A1Doc ==
    Object(<< <<"label", Str(<<"Orwell">>)>>,
              <<"born", Num(1903)>>,
              <<"pub", Ref(<<"/", "p1", "#", "/", "house">>)>> >>)

P1Doc ==
    Object(<< <<"house", Object(<< <<"label", Str(<<"Secker">>)>>,
                                   <<"city", Str(<<"London">>)>> >>)>>,
              <<"list", Arr(<< Num(1), Object(<< <<"title", Str(<<"l">>)>> >>) >>)>> >>)

BigDoc == Object(<< <<"label", Str(<<"big">>)>> >>)

LoopDoc == Object(<< <<"self", Ref(<<"/", "loop">>)>>, <<"label", Str(<<"l">>)>> >>)

\* Two documents that refer to each other.
PingDoc == Object(<< <<"more", Ref(<<"/", "pong">>)>>, <<"label", Str(<<"ping">>)>> >>)
PongDoc == Object(<< <<"more", Ref(<<"ping">>)>>, <<"label", Str(<<"pong">>)>> >>)

EdgeDoc ==
    Object(
        [n \in 1..MaxChain |-> <<"s" \o ToString(n), Ref(ChainPath("s", n - 1))>>]
     \o [n \in 1..MaxChain |-> <<"o" \o ToString(n), Ref(ChainPath("o", n - 1))>>]
     \o << <<"gone", Ref(<<"/", "missing">>)>>,
           <<"bad", Ref(<<"/", "broken">>)>>,
           <<"fragok", Ref(<<"/", "p1", "#", "/", "house", "/", "city">>)>>,
           <<"fragmiss", Ref(<<"/", "p1", "#", "/", "house", "/", "zip">>)>>,
           <<"fragnon", Ref(<<"/", "p1", "#", "house", "/", "city", "/", "x">>)>>,
           <<"fragidx", Ref(<<"p1", "#", "list", "/", "1">>)>>,
           <<"hash", Ref(<<"/", "big", "#">>)>>,
           <<"loop", Ref(<<"/", "loop">>)>>,
           <<"self", Ref(<<"/", "loop">>)>>,
           <<"label", Str(<<"edge">>)>>,
           <<"list", Arr(<< Ref(<<"/", "big">>), Ref(ChainPath("o", MaxOptDepth)),
                            Ref(<<"/", "big">>) >>)>> >>)

\* The files under rootDir, relative path -> content, which no call
\* changes: a file holds JSON text (ok) or text that JSON.parse rejects.
Files ==
    FromEntries(
        << <<<<"books">>, [ok |-> TRUE, json |-> BooksDoc]>>,
           <<<<"edge">>, [ok |-> TRUE, json |-> EdgeDoc]>>,
           <<<<"a1">>, [ok |-> TRUE, json |-> A1Doc]>>,
           <<<<"p1">>, [ok |-> TRUE, json |-> P1Doc]>>,
           <<<<"big">>, [ok |-> TRUE, json |-> BigDoc]>>,
           <<<<"loop">>, [ok |-> TRUE, json |-> LoopDoc]>>,
           <<<<"ping">>, [ok |-> TRUE, json |-> PingDoc]>>,
           <<<<"pong">>, [ok |-> TRUE, json |-> PongDoc]>>,
           <<<<"broken">>, [ok |-> FALSE, json |-> Null]>>,
           <<<<"seven">>, [ok |-> TRUE, json |-> Num(7)]>> >>
     \o ChainFiles("s", Num(7))
     \o ChainFiles("o", Object(<< <<"label", Str(<<"o">>)>> >>)))

---------------------------------------------------------------------------
(* The engine.  A method takes the engine object `this` and gives back a   *)
(* record [err, val, this]: what it threw (or "none"), what it returned,   *)
(* and the engine object after it.  `this` carries, beside the fields of   *)
(* the class, the log of the calls of loadJSON and of resolveRef.          *)

Return(v, this) == [err |-> "none", val |-> v, this |-> this]
Throw(e, this) == [err |-> e, val |-> Undefined, this |-> this]

\* new JSONQL(options): options.maxDepth is 0 when it is not given.
constructor(options) ==
    [ maxDepth |-> IF options.maxDepth = 0 THEN DefaultMaxDepth ELSE options.maxDepth,
      enableCache |-> options.cache # FALSE,
      cache |-> <<>>,
      visitedRefs |-> {},
      loadCalls |-> <<>>,
      refCalls |-> <<>> ]

\* The path under rootDir that loadJSON reads.
RelativePath(filePath) ==
    IF filePath # <<>> /\ filePath[1] = "/" THEN Tail(filePath) ELSE filePath

\* existsSync, readFileSync and JSON.parse of the path p under rootDir: the
\* empty path is rootDir itself, which exists and cannot be read as a file.
readJSON(files, p) ==
    IF p = <<>> THEN [err |-> "ParseError", val |-> Undefined]
    ELSE IF p \notin DOMAIN files THEN [err |-> "NotFound", val |-> Undefined]
    ELSE IF ~files[p].ok THEN [err |-> "ParseError", val |-> Undefined]
    ELSE [err |-> "none", val |-> files[p].json]

\* loadJSON(filePath)
loadJSON(filePath) == readJSON(Files, RelativePath(filePath))

LogLoad(this, filePath) == [this EXCEPT !.loadCalls = Append(@, filePath)]

\* The for loop of resolveRef over the fragment's segments.
RECURSIVE navigate(_, _)
navigate(result, fragmentPath) ==
    IF fragmentPath = <<>> THEN [err |-> "none", val |-> result]
    ELSE IF ~IsObjectType(result) THEN [err |-> "FragmentNotFound", val |-> Undefined]
    ELSE LET next == Get(result, SegmentKey(Head(fragmentPath))) IN
         IF next = Undefined THEN [err |-> "FragmentNotFound", val |-> Undefined]
         ELSE navigate(next, Tail(fragmentPath))

CacheSetAlways(this, ref, result) ==
    [this EXCEPT !.cache = (ref :> result) @@ @]

CacheSetByFile(this, ref, result) ==
    IF this.enableCache
    THEN [this EXCEPT !.cache = (split(ref, "#")[1] :> result) @@ @]
    ELSE this

\* cache.set(ref, result) when caching is enabled
CacheSet(this, ref, result) ==
    IF this.enableCache
    THEN [this EXCEPT !.cache = (ref :> result) @@ @]
    ELSE this

UnvisitForgotten(this, ref) == this

\* visitedRefs.delete(ref)
Unvisit(this, ref) == [this EXCEPT !.visitedRefs = @ \ {ref}]

OnLoadErrorThrown(e, this) == Throw(e, this)

\* What resolveRef gives when loadJSON threw e: the catch blocks return {}.
OnLoadError(e, this) == Return(EmptyObj, this)

OnFragmentErrorThrown(e, this) == Throw(e, this)

\* What resolveRef gives when the fragment loop threw e: the catch block
\* sets result = {}.
OnFragmentError(e, this) == Return(EmptyObj, this)

\* What resolveRef gives when the reference is in visitedRefs.
OnCircular(this) == Return(EmptyObj, this)

resolveRef(this0, ref, depth) ==
    LET this == [this0 EXCEPT !.refCalls = Append(@, ref)] IN
    IF depth > this.maxDepth THEN Throw("MaxDepth", this)
    ELSE IF ref \in this.visitedRefs THEN OnCircular(this)
    ELSE
    LET t1 == [this EXCEPT !.visitedRefs = @ \cup {ref}] IN
    IF t1.enableCache /\ ref \in DOMAIN t1.cache
    THEN Return(t1.cache[ref], Unvisit(t1, ref))
    ELSE
    LET parts == split(ref, "#")
        filePath == parts[1]
        \* undefined and "" are both falsy
        fragment == IF Len(parts) >= 2 THEN parts[2] ELSE <<>>
        t2 == LogLoad(t1, filePath)
        fragmentPath == IF fragment[1] = "/"
                        THEN split(Tail(fragment), "/")
                        ELSE split(fragment, "/")
        \* after the loop over the segments gave `result`
        Navigated(result) ==
            IF result.err # "none" THEN OnFragmentError(result.err, Unvisit(t2, ref))
            ELSE Return(result.val, Unvisit(CacheSet(t2, ref, result.val), ref))
        \* after loadJSON gave `document`
        Loaded(document) ==
            IF document.err # "none" THEN OnLoadError(document.err, Unvisit(t2, ref))
            ELSE IF fragment = <<>>
            THEN Return(document.val, Unvisit(CacheSet(t2, ref, document.val), ref))
            ELSE Navigated(navigate(document.val, fragmentPath))
    IN  Loaded(loadJSON(filePath))

isRef(obj) ==
    /\ obj.t = "obj"
    /\ "$ref" \in DOMAIN obj.o
    /\ obj.o["$ref"].t = "str"

\* key in selections || Object.keys(selections).length === 0
Selected(selections, key) ==
    \/ key \in DOMAIN selections
    \/ key \in ProtoKeys
    \/ DOMAIN selections = {}

\* selections[key] || {}: a member inherited from Object.prototype is a
\* function, which has no enumerable key of its own and none of KeyOrder's
\* keys but the inherited ones, so it selects as the empty tree does.
SubSelections(selections, key) ==
    IF key \in DOMAIN selections THEN selections[key] ELSE EmptySel

TargetDepthSame(depth) == depth

\* The depth at which resolveAllRefs expands the target of a reference it
\* resolved at `depth`, an item of an array, a value of an object.
TargetDepth(depth) == depth + 1
ItemDepth(depth) == depth + 1
ValueDepth(depth) == depth + 1

AllSettledPartial(r, item) ==
    IF item.err # "none" THEN [r EXCEPT !.this = item.this]
    ELSE Return(Arr(Append(r.val.a, item.val)), item.this)

\* Promise.all over the items: every item's call runs, whatever the others
\* give; the result is rejected when one of them is.
AllSettled(r, item) ==
    IF r.err # "none" THEN [item EXCEPT !.err = r.err, !.val = Undefined]
    ELSE IF item.err # "none" THEN item
    ELSE Return(Arr(Append(r.val.a, item.val)), item.this)

RECURSIVE resolveAllRefs(_, _, _, _)
RECURSIVE mapItems(_, _, _, _)
RECURSIVE objectLoop(_, _, _, _, _)

resolveAllRefsScalarFirst(this, data, selections, depth) ==
    IF ~IsObjectType(data) THEN Return(data, this)
    ELSE IF depth > this.maxDepth THEN Throw("MaxDepth", this)
    ELSE IF data.t = "arr"
    THEN mapItems(Return(Arr(<<>>), this), data.a, selections, depth)
    ELSE IF isRef(data)
    THEN LET Expand(resolved) ==
                 IF resolved.err # "none" THEN resolved
                 ELSE resolveAllRefs(resolved.this, resolved.val, selections,
                                     TargetDepth(depth))
         IN  Expand(resolveRef(this, data.o["$ref"].s, depth))
    ELSE objectLoop(Return(EmptyObj, this), data, selections, depth,
                    SortKeys(DOMAIN data.o))

\* data.map(item => resolveAllRefs(item, selections, depth + 1)), the calls
\* made in the order of the items; r is what the items before gave.
mapItems(r, items, selections, depth) ==
    IF items = <<>> THEN r
    ELSE mapItems(AllSettled(r, resolveAllRefs(r.this, Head(items), selections,
                                               ItemDepth(depth))),
                  Tail(items), selections, depth)

\* for (const key of Object.keys(data)), r.val being `result` so far
objectLoop(r, data, selections, depth, keys) ==
    IF keys = <<>> THEN r
    ELSE LET key == Head(keys)
             \* result[key] = v, or the loop left by what the call threw
             Assign(v) ==
                 IF v.err # "none" THEN v
                 ELSE objectLoop(Return(Obj((key :> v.val) @@ r.val.o), v.this),
                                 data, selections, depth, Tail(keys))
         IN  IF ~Selected(selections, key)
             THEN objectLoop(r, data, selections, depth, Tail(keys))
             ELSE Assign(resolveAllRefs(r.this, data.o[key],
                                        SubSelections(selections, key),
                                        ValueDepth(depth)))

resolveAllRefs(this, data, selections, depth) ==
    IF depth > this.maxDepth THEN Throw("MaxDepth", this)
    ELSE IF ~IsObjectType(data) THEN Return(data, this)
    ELSE IF data.t = "arr"
    THEN mapItems(Return(Arr(<<>>), this), data.a, selections, depth)
    ELSE IF isRef(data)
    THEN LET Expand(resolved) ==
                 IF resolved.err # "none" THEN resolved
                 ELSE resolveAllRefs(resolved.this, resolved.val, selections,
                                     TargetDepth(depth))
         IN  Expand(resolveRef(this, data.o["$ref"].s, depth))
    ELSE objectLoop(Return(EmptyObj, this), data, selections, depth,
                    SortKeys(DOMAIN data.o))

---------------------------------------------------------------------------
(* The query text.  graphql's parse either throws or gives the document's  *)
(* one operation; its selection set is a sequence of selections            *)
(* [kind, name, sel], sel being the field's own selection set, empty when  *)
(* the field has none.                                                     *)

Field(name, sel) == [kind |-> "Field", name |-> name, sel |-> sel]
Leaf(name) == Field(name, <<>>)
Spread(name) == [kind |-> "FragmentSpread", name |-> name, sel |-> <<>>]
QueryText(sels) == [ok |-> TRUE, sels |-> sels]
Malformed == [ok |-> FALSE, sels |-> <<>>]

\* parse(query)
parse(queryStr) ==
    IF queryStr.ok THEN [err |-> "none", val |-> queryStr.sels]
    ELSE [err |-> "Syntax", val |-> <<>>]

\* processNestedSelections(selectionSet, result): the tree `result` ends
\* as; a field named twice keeps what its last selection gave.
RECURSIVE processNestedSelections(_)
processNestedSelections(selectionSet) ==
    LET fields == {i \in 1..Len(selectionSet) : selectionSet[i].kind = "Field"}
        lastOf(n) == CHOOSE i \in fields :
                        /\ selectionSet[i].name = n
                        /\ \A j \in fields : selectionSet[j].name = n => j <= i
    IN  [n \in {selectionSet[i].name : i \in fields} |->
            processNestedSelections(selectionSet[lastOf(n)].sel)]

\* processNestedQuery(query), the text being one the parser accepts
processNestedQuery(queryStr) == processNestedSelections(parse(queryStr).val)

\* What filterResponse gives for a selected key whose value is an object or
\* an array: it filters the value by the key's sub-selections.
RECURSIVE filterResponse(_, _)
FilterCompoundVerbatim(value, subSelections) ==
    IF subSelections = EmptySel THEN value ELSE filterResponse(value, subSelections)

FilterCompound(value, subSelections) == filterResponse(value, subSelections)

filterResponse(data, selections) ==
    IF ~IsObjectType(data) THEN data
    ELSE IF data.t = "arr"
    THEN Arr([i \in 1..Len(data.a) |-> filterResponse(data.a[i], selections)])
    ELSE Obj([key \in {k \in DOMAIN selections : HasProp(data, k)} |->
                 IF IsObjectType(Get(data, key))
                 THEN FilterCompound(Get(data, key), selections[key])
                 ELSE Get(data, key)])

\* What query does with what resolveAllRefs threw for a top-level key.
OnExpandError(v, r) == v

\* The for loop of query over the keys of querySelections, r.val being
\* `result` so far.  `key in rootData` throws a TypeError when rootData is
\* no object.
RECURSIVE queryLoop(_, _, _, _)
queryLoop(r, rootData, querySelections, keys) ==
    IF keys = <<>> THEN r
    ELSE IF ~IsObjectType(rootData) THEN Throw("TypeError", r.this)
    ELSE LET key == Head(keys)
             \* result[key] = filterResponse(v, ...), or the catch block
             Assign(v) ==
                 IF v.err # "none" THEN OnExpandError(v, r)
                 ELSE queryLoop(
                        Return(Obj((key :> filterResponse(v.val, querySelections[key]))
                                   @@ r.val.o), v.this),
                        rootData, querySelections, Tail(keys))
         IN  IF ~HasProp(rootData, key)
             THEN queryLoop(r, rootData, querySelections, Tail(keys))
             ELSE Assign(resolveAllRefs(r.this, Get(rootData, key),
                                        querySelections[key], 0))

queryParseFirst(this, entryFile, queryStr) ==
    LET t0 == [this EXCEPT !.visitedRefs = {}]
        t1 == LogLoad(t0, entryFile)
        Loaded(rootData) ==
            IF rootData.err # "none" THEN Throw(rootData.err, t1)
            ELSE LET querySelections == processNestedQuery(queryStr) IN
                 queryLoop(Return(EmptyObj, t1), rootData.val, querySelections,
                           SortKeys(DOMAIN querySelections))
    IN  IF parse(queryStr).err # "none" THEN Throw(parse(queryStr).err, t0)
        ELSE Loaded(loadJSON(entryFile))

\* query(entryFile, queryStr), run until every call it started has ended
query(this, entryFile, queryStr) ==
    LET t0 == [this EXCEPT !.visitedRefs = {}]
        t1 == LogLoad(t0, entryFile)
        \* after loadJSON gave `rootData`
        Loaded(rootData) ==
            IF rootData.err # "none" THEN Throw(rootData.err, t1)
            ELSE IF parse(queryStr).err # "none" THEN Throw(parse(queryStr).err, t1)
            ELSE LET querySelections == processNestedQuery(queryStr) IN
                 queryLoop(Return(EmptyObj, t1), rootData.val, querySelections,
                           SortKeys(DOMAIN querySelections))
    IN  Loaded(loadJSON(entryFile))

clearCacheKept(this) == this

\* clearCache()
clearCache(this) == [this EXCEPT !.cache = <<>>]

---------------------------------------------------------------------------
(* The state machine: an engine is constructed over the files, and its     *)
(* caller calls query and clearCache, one call after the other has ended.  *)

Options == [maxDepth : 0..MaxOptDepth, cache : BOOLEAN]

MaxQueries == 2

Call(entryFile, queryStr) == [entryFile |-> entryFile, queryStr |-> queryStr]

BooksQueries ==
    { QueryText(<<Field("books", <<Leaf("title"), Field("author", <<Leaf("label")>>)>>)>>),
      QueryText(<<Field("books", <<Leaf("title"),
                                   Field("author", <<Leaf("label"), Leaf("born"),
                                                     Field("pub", <<Leaf("city")>>)>>),
                                   Field("pub", <<Leaf("label"), Leaf("city")>>)>>)>>),
      QueryText(<<Field("books", <<Leaf("author")>>), Leaf("label")>>),
      QueryText(<<Leaf("books")>>),
      QueryText(<<Leaf("tags"), Leaf("label"), Leaf("born"), Leaf("more")>>),
      QueryText(<<Leaf("info"), Field("info", <<Leaf("title"), Leaf("more")>>)>>),
      QueryText(<<Field("info", <<Field("more", <<Leaf("title")>>),
                                  Field("pub", <<Field("list", <<Leaf("title")>>)>>),
                                  Spread("f")>>)>>),
      QueryText(<<Leaf("constructor"), Leaf("label")>>),
      Malformed }

EdgeQueries ==
    { QueryText(<<Leaf("gone"), Leaf("fragok")>>),
      QueryText(<<Leaf("bad")>>),
      QueryText(<<Leaf("fragmiss"), Leaf("fragnon"), Leaf("fragok")>>),
      QueryText(<<Leaf("fragidx"), Leaf("hash")>>),
      QueryText(<<Leaf("loop")>>),
      QueryText(<<Field("loop", <<Leaf("label"), Field("self", <<Leaf("label")>>)>>)>>),
      QueryText(<<Field("list", <<Leaf("label")>>)>>),
      QueryText(<<Leaf("label"), Field("list", <<Leaf("label")>>)>>),
      QueryText(<<Field("loop", <<Leaf("label")>>), Field("self", <<Leaf("label")>>)>>) }
    \cup { QueryText(<<Leaf("s" \o ToString(n))>>) : n \in 1..MaxChain }
    \cup { QueryText(<<Field("o" \o ToString(n), <<Leaf("label")>>)>>) : n \in 1..MaxChain }

\* The calls of query the caller makes.
Calls ==
         { Call(<<"/", "books">>, q) : q \in BooksQueries }
    \cup { Call(<<"edge">>, q) : q \in EdgeQueries }
    \cup { Call(<<"/", "missing">>, QueryText(<<Leaf("label")>>)),
           Call(<<"broken">>, Malformed),
           Call(<<"seven">>, QueryText(<<Leaf("label")>>)),
           Call(<<"seven">>, QueryText(<<Spread("f")>>)),
           Call(<<"big">>, QueryText(<<Leaf("label"), Leaf("title")>>)) }

\* The calls of query a caller makes without awaiting the one before.
AsyncCalls ==
    { Call(<<"/", "books">>,
           QueryText(<<Field("books", <<Leaf("title"), Field("author", <<Leaf("label")>>)>>)>>)),
      Call(<<"ping">>, QueryText(<<Leaf("more")>>)) }

Engine ==
    [ maxDepth |-> maxDepth, enableCache |-> enableCache, cache |-> cache,
      visitedRefs |-> visitedRefs, loadCalls |-> <<>>, refCalls |-> <<>> ]

Init ==
    /\ \E options \in Options :
          LET this == constructor(options) IN
          /\ maxDepth = this.maxDepth
          /\ enableCache = this.enableCache
          /\ cache = this.cache
          /\ visitedRefs = this.visitedRefs
    /\ queries = 0
    /\ last = [ op |-> "new", entryFile |-> <<>>, queryStr |-> Malformed,
                err |-> "none", val |-> Undefined,
                loadCalls |-> <<>>, refCalls |-> <<>> ]
    /\ pool = <<>>
    /\ script = AsyncCalls
    /\ dirtyRefs = {}

Query(entryFile, queryStr) ==
    /\ queries < MaxQueries
    /\ queries' = queries + 1
    /\ \E r \in {query(Engine, entryFile, queryStr)} :
          /\ cache' = r.this.cache
          /\ visitedRefs' = r.this.visitedRefs
          /\ last' = [ op |-> "query", entryFile |-> entryFile, queryStr |-> queryStr,
                       err |-> r.err, val |-> r.val,
                       loadCalls |-> r.this.loadCalls, refCalls |-> r.this.refCalls ]
    /\ UNCHANGED <<maxDepth, enableCache, pool, script, dirtyRefs>>

ClearCache ==
    LET this == clearCache(Engine) IN
    /\ cache' = this.cache
    /\ visitedRefs' = this.visitedRefs
    /\ last' = [ op |-> "clearCache", entryFile |-> <<>>, queryStr |-> Malformed,
                 err |-> "none", val |-> Undefined,
                 loadCalls |-> <<>>, refCalls |-> <<>> ]
    /\ UNCHANGED <<maxDepth, enableCache, queries, pool, script, dirtyRefs>>

Next ==
    \/ \E c \in Calls : Query(c.entryFile, c.queryStr)
    \/ ClearCache

Spec == Init /\ [][Next]_vars

---------------------------------------------------------------------------
(* The engine, call by call.  query and resolveAllRefs are async: a call   *)
(* runs until its first await and gives back a promise, and what follows   *)
(* an await runs later, once the awaited promise is settled, in a turn of  *)
(* its own.  Between two turns the turns of other calls run, and the       *)
(* caller may call query and clearCache.  loadJSON, resolveRef and          *)
(* filterResponse are synchronous: a turn runs them whole.  The pool holds *)
(* a node for every promise; a promise is named by its index in the pool.  *)

Pending == [st |-> "pending", err |-> "none", val |-> Undefined]
Fulfilled(v) == [st |-> "fulfilled", err |-> "none", val |-> v]
Rejected(e) == [st |-> "rejected", err |-> e, val |-> Undefined]

\* The promise of a call that ended before any await.
SettledNode(out) == [k |-> "settled", out |-> out]

\* Promise.all(children)
AllNode(children) == [k |-> "all", children |-> children]

\* A call of resolveAllRefs in its loop over Object.keys(data): `key` is
\* the key whose value it awaits (promise `child`), `keys` are the keys
\* after it, `result` is the object built so far.
LoopNode(data, selections, depth) ==
    [ k |-> "loop", data |-> data, selections |-> selections, depth |-> depth,
      key |-> "", keys |-> SortKeys(DOMAIN data.o), result |-> EmptyObj,
      child |-> 0, out |-> Pending ]

\* A call of query in its loop over the keys of querySelections.  `cleared`
\* notes that clearCache was called since, `outOfOrder` that an item of an
\* array it expands ended before an item of the same array before it.
QueryNode(call, rootData, querySelections) ==
    [ k |-> "query", call |-> call, rootData |-> rootData,
      querySelections |-> querySelections,
      key |-> "", keys |-> SortKeys(DOMAIN querySelections), result |-> EmptyObj,
      child |-> 0, out |-> Pending, cleared |-> FALSE, outOfOrder |-> FALSE ]

PromiseAllReversed(results) ==
    IF \E i \in 1..Len(results) : results[i].st = "rejected"
    THEN Rejected(results[CHOOSE i \in 1..Len(results) : results[i].st = "rejected"].err)
    ELSE IF \A i \in 1..Len(results) : results[i].st = "fulfilled"
    THEN Fulfilled(Arr([i \in 1..Len(results) |-> results[Len(results) + 1 - i].val]))
    ELSE Pending

\* How Promise.all settles, given how its promises have: rejected as soon
\* as one of them is (the errors of resolveAllRefs are all the max-depth
\* error, so whichever was first, the error is the same), fulfilled with
\* the values in the order of the promises once all of them are.
PromiseAll(results) ==
    IF \E i \in 1..Len(results) : results[i].st = "rejected"
    THEN Rejected(results[CHOOSE i \in 1..Len(results) : results[i].st = "rejected"].err)
    ELSE IF \A i \in 1..Len(results) : results[i].st = "fulfilled"
    THEN Fulfilled(Arr([i \in 1..Len(results) |-> results[i].val]))
    ELSE Pending

\* How promise id of pool p has settled.
RECURSIVE statusOf(_, _)
statusOf(p, id) ==
    IF p[id].k = "all"
    THEN PromiseAll([i \in 1..Len(p[id].children) |-> statusOf(p, p[id].children[i])])
    ELSE p[id].out

TooDeepByOne(depth, this) == depth > this.maxDepth + 1

\* The depth check of resolveAllRefs.
TooDeep(depth, this) == depth > this.maxDepth

\* A turn works on w = [this, pool, dirtyRefs, root, id]: the engine object,
\* the pool, the call of query the turn works for, and the promise the call
\* just made gave back.  Every node names the call of query it works for.
Turn(this, p, dirty, root) ==
    [this |-> this, pool |-> p, dirtyRefs |-> dirty, root |-> root, id |-> 0]

NewPromise(w, node) ==
    [w EXCEPT !.pool = Append(@, [root |-> w.root] @@ node), !.id = Len(w.pool) + 1]

\* this.resolveRef(ref, depth), called in a turn
ResolveRefIn(w, ref) ==
    IF w.this.visitedRefs # {} THEN [w EXCEPT !.dirtyRefs = @ \cup {ref}] ELSE w

\* const x = e: the value of e, computed once, { F(x) : x \in {e} } being
\* the set of the one value F gives for it.
The(S) == CHOOSE v \in S : TRUE

RECURSIVE resolveAllRefsCall(_, _, _, _)
RECURSIVE mapCalls(_, _, _, _, _)
RECURSIVE runLoop(_, _)

\* data.map(item => this.resolveAllRefs(item, selections, depth + 1)): the
\* calls are made one after the other, each running to its first await.
mapCalls(w, items, selections, depth, children) ==
    IF items = <<>> THEN NewPromise(w, AllNode(children))
    ELSE The({ mapCalls(c, Tail(items), selections, depth, Append(children, c.id)) :
                 c \in {resolveAllRefsCall(w, Head(items), selections,
                                           ItemDepth(depth))} })

\* The loop of call id from the key after the one it awaited to its next
\* await, or to its return.
runLoop(w, id) ==
    LET node == w.pool[id] IN
    IF node.keys = <<>>
    THEN [w EXCEPT !.pool[id].out = Fulfilled(node.result), !.id = id]
    ELSE IF ~Selected(node.selections, Head(node.keys))
    THEN runLoop([w EXCEPT !.pool[id].keys = Tail(@)], id)
    ELSE The({ [c EXCEPT !.pool[id].key = Head(node.keys),
                         !.pool[id].keys = Tail(node.keys),
                         !.pool[id].child = c.id,
                         !.id = id] :
                 c \in {resolveAllRefsCall(w, node.data.o[Head(node.keys)],
                                           SubSelections(node.selections,
                                                         Head(node.keys)),
                                           ValueDepth(node.depth))} })

\* this.resolveAllRefs(data, selections, depth), from the call to its first
\* await or to its return: w.id of what it gives is the promise it gave
\* back.  A reference's call returns the promise of the call for its target.
resolveAllRefsCall(w, data, selections, depth) ==
    IF TooDeep(depth, w.this) THEN NewPromise(w, SettledNode(Rejected("MaxDepth")))
    ELSE IF ~IsObjectType(data) THEN NewPromise(w, SettledNode(Fulfilled(data)))
    ELSE IF data.t = "arr" THEN mapCalls(w, data.a, selections, depth, <<>>)
    ELSE IF isRef(data)
    THEN The({ The({ IF resolved.err # "none"
                     THEN NewPromise(c, SettledNode(Rejected(resolved.err)))
                     ELSE resolveAllRefsCall(c, resolved.val, selections,
                                             TargetDepth(depth)) :
                     c \in {[ResolveRefIn(w, data.o["$ref"].s)
                                EXCEPT !.this = resolved.this]} }) :
               resolved \in {resolveRef(w.this, data.o["$ref"].s, depth)} })
    ELSE The({ runLoop(c, c.id) :
                 c \in {NewPromise(w, LoopNode(data, selections, depth))} })

\* The loop of query id from the key after the one it awaited to its next
\* await, or to its return or its throw.
RECURSIVE runQuery(_, _)
runQuery(w, id) ==
    LET node == w.pool[id] IN
    IF node.keys = <<>>
    THEN [w EXCEPT !.pool[id].out = Fulfilled(node.result), !.id = id]
    ELSE IF ~IsObjectType(node.rootData)
    THEN [w EXCEPT !.pool[id].out = Rejected("TypeError"), !.id = id]
    ELSE IF ~HasProp(node.rootData, Head(node.keys))
    THEN runQuery([w EXCEPT !.pool[id].keys = Tail(@)], id)
    ELSE The({ [c EXCEPT !.pool[id].key = Head(node.keys),
                         !.pool[id].keys = Tail(node.keys),
                         !.pool[id].child = c.id,
                         !.id = id] :
                 c \in {resolveAllRefsCall(w, Get(node.rootData, Head(node.keys)),
                                           node.querySelections[Head(node.keys)],
                                           0)} })

\* this.query(entryFile, queryStr), from the call to its first await or to
\* its end.
queryCall(w, call) ==
    LET t0 == [w EXCEPT !.this.visitedRefs = {}]
        Failed(e) == NewPromise(t0, [QueryNode(call, Undefined, EmptySel)
                                        EXCEPT !.out = Rejected(e)])
    IN  The({ IF rootData.err # "none" THEN Failed(rootData.err)
              ELSE IF parse(call.queryStr).err # "none"
              THEN Failed(parse(call.queryStr).err)
              ELSE The({ runQuery(c, c.id) :
                           c \in {NewPromise(t0, QueryNode(call, rootData.val,
                                        processNestedQuery(call.queryStr)))} }) :
              rootData \in {loadJSON(call.entryFile)} })

\* Call id having ended, whether it is an item of an array that ended
\* before an item before it.
EndedEarly(p, id) ==
    /\ p[id].k = "loop"
    /\ p[id].out.st # "pending"
    /\ \E a \in 1..Len(p) :
          /\ p[a].k = "all"
          /\ \E i, j \in 1..Len(p[a].children) :
                /\ j < i
                /\ p[a].children[i] = id
                /\ statusOf(p, p[a].children[j]).st = "pending"

noteOrder(w, id) ==
    IF EndedEarly(w.pool, id)
    THEN [w EXCEPT !.pool[w.pool[id].root].outOfOrder = TRUE]
    ELSE w

\* What follows the await of call id, its awaited promise having settled
\* as `got`.
resume(w, id, got) ==
    LET node == w.pool[id] IN
    IF got.st = "rejected"
    THEN [w EXCEPT !.pool[id].out = Rejected(got.err), !.id = id]
    ELSE IF node.k = "loop"
    THEN The({ noteOrder(c, id) :
                 c \in {runLoop([w EXCEPT !.pool[id].result =
                                     Obj((node.key :> got.val) @@ @.o)], id)} })
    ELSE runQuery([w EXCEPT !.pool[id].result =
                       Obj((node.key :> filterResponse(got.val,
                                                       node.querySelections[node.key]))
                           @@ @.o)], id)

\* The promises of the pool that nothing awaits any more are dropped with
\* the pool, once no call is left in flight.
InFlight(p) == {id \in 1..Len(p) : p[id].k \in {"loop", "query"} /\ p[id].out.st = "pending"}
Collected(p) == IF InFlight(p) = {} THEN <<>> ELSE p

\* What the caller sees of query id once its turn has run.
Settlement(p, id) ==
    IF p[id].out.st = "pending" THEN last
    ELSE [ op |-> "query", entryFile |-> p[id].call.entryFile,
           queryStr |-> p[id].call.queryStr,
           err |-> p[id].out.err, val |-> p[id].out.val,
           loadCalls |-> <<>>, refCalls |-> <<>>,
           cleared |-> p[id].cleared, outOfOrder |-> p[id].outOfOrder ]

\* The state a turn leaves, w being what the turn gave.
TurnEnds(w) ==
    /\ cache' = w.this.cache
    /\ visitedRefs' = w.this.visitedRefs
    /\ dirtyRefs' = w.dirtyRefs
    /\ pool' = Collected(w.pool)
    /\ last' = IF w.pool[w.id].k = "query" THEN Settlement(w.pool, w.id) ELSE last
    /\ UNCHANGED <<maxDepth, enableCache, queries>>

\* The caller calls query.
CallQuery(call) ==
    /\ call \in script
    /\ script' = script \ {call}
    /\ \E w \in {queryCall(Turn(Engine, pool, dirtyRefs, Len(pool) + 1), call)} :
          TurnEnds(w)

\* The turn of call id after its await.
Resume(id) ==
    /\ id \in InFlight(pool)
    /\ statusOf(pool, pool[id].child).st # "pending"
    /\ \E w \in {resume(Turn(Engine, pool, dirtyRefs, pool[id].root), id,
                         statusOf(pool, pool[id].child))} :
          TurnEnds(w)
    /\ UNCHANGED script

\* The caller calls clearCache while calls of query are in flight.  A call
\* on an empty cache changes nothing, and is left out.
ClearCacheInFlight ==
    /\ InFlight(pool) # {}
    /\ cache # <<>>
    /\ cache' = clearCache(Engine).cache
    /\ pool' = [id \in 1..Len(pool) |->
                   IF pool[id].k = "query" /\ pool[id].out.st = "pending"
                   THEN [pool[id] EXCEPT !.cleared = TRUE]
                   ELSE pool[id]]
    /\ UNCHANGED <<maxDepth, enableCache, visitedRefs, queries, last, script, dirtyRefs>>

Turns == \E id \in 1..Len(pool) : Resume(id)

AsyncNext ==
    \/ \E call \in AsyncCalls : CallQuery(call)
    \/ Turns
    \/ ClearCacheInFlight

\* Every turn that can run does run: the event loop runs the microtasks
\* queued, one after the other, until none is left.
AsyncSpec == Init /\ [][AsyncNext]_vars /\ WF_vars(Turns)

---------------------------------------------------------------------------
(* What the claims speak of.                                               *)

\* The last call was a query that loaded its entry document and parsed its
\* text.
Ran == last.op = "query" /\ loadJSON(last.entryFile).err = "none" /\ last.queryStr.ok

LastRoot == loadJSON(last.entryFile).val
LastSelections == processNestedQuery(last.queryStr)
Outcome(r) == [err |-> r.err, val |-> r.val]

\* An engine with the options of this one and nothing cached.
FreshEngine == [Engine EXCEPT !.cache = <<>>, !.visitedRefs = {}]

\* The value a reference string names: its document, navigated by its
\* fragment.
TargetOf(ref) ==
    LET parts == split(ref, "#")
        document == loadJSON(parts[1])
        fragment == IF Len(parts) >= 2 THEN parts[2] ELSE <<>>
    IN  IF document.err # "none" \/ fragment = <<>> THEN document
        ELSE navigate(document.val,
                      split(IF fragment[1] = "/" THEN Tail(fragment) ELSE fragment, "/"))

\* Deeper than any expansion goes.
InlineFuel == DefaultMaxDepth + 2

\* v with every reference that names a value replaced by that value, and
\* so on in the value, through at most `fuel` references in a row.
RECURSIVE Inline(_, _)
Inline(v, fuel) ==
    IF v.t = "arr" THEN Arr([i \in 1..Len(v.a) |-> Inline(v.a[i], fuel)])
    ELSE IF v.t # "obj" THEN v
    ELSE IF isRef(v) /\ fuel > 0 /\ TargetOf(v.o["$ref"].s).err = "none"
    THEN Inline(TargetOf(v.o["$ref"].s).val, fuel - 1)
    ELSE Obj([k \in DOMAIN v.o |-> Inline(v.o[k], fuel)])

InlinedFiles == [p \in DOMAIN Files |-> Inline(Files[p].json, InlineFuel)]

\* What the last query gives over the entry document with its references
\* replaced by their targets.
InlinedOutcome ==
    Outcome(queryLoop(Return(EmptyObj, FreshEngine),
                      InlinedFiles[RelativePath(last.entryFile)],
                      LastSelections, SortKeys(DOMAIN LastSelections)))

\* C1 as stated: a query gives what it would give were every reference that
\* resolves replaced in the document by its target.
C1_Original == Ran => Outcome(last) = InlinedOutcome

\* C1, amended: a query gives what it would give were every reference that
\* resolves replaced in the document by its target, unless it fails with
\* the max-depth error (a reference costs one level of depth, so the query
\* may fail where the one over the replaced document succeeds).
C1_Transparent == Ran => (Outcome(last) = InlinedOutcome \/ last.err = "MaxDepth")

\* A query that resolved the same reference twice and a reference with a
\* fragment, and succeeded with their targets in its result.
C1_Witness ==
    /\ Ran /\ last.err = "none"
    /\ \E i, j \in 1..Len(last.refCalls) : i # j /\ last.refCalls[i] = last.refCalls[j]
    /\ \E i \in 1..Len(last.refCalls) : "#" \in {last.refCalls[i][k] : k \in 1..Len(last.refCalls[i])}
    /\ InlinedFiles[RelativePath(last.entryFile)] # LastRoot
    /\ last.val # EmptyObj

\* The top-level keys the last query selects and the root document owns.
TopKeys ==
    IF LastRoot.t = "obj" THEN DOMAIN LastSelections \cap DOMAIN LastRoot.o ELSE {}

\* The file a reference string names.
FileOf(ref) == RelativePath(split(ref, "#")[1])

\* The reference strings at the positions of v that the tree `sel` selects:
\* a key is selected when the tree is empty or holds the key, and a
\* reference stands for its target.
RECURSIVE SelectedRefs(_, _, _)
SelectedRefs(v, sel, fuel) ==
    IF fuel = 0 THEN {}
    ELSE IF v.t = "arr"
    THEN UNION {SelectedRefs(v.a[i], sel, fuel - 1) : i \in 1..Len(v.a)}
    ELSE IF v.t # "obj" THEN {}
    ELSE IF isRef(v)
    THEN {v.o["$ref"].s} \cup
         (IF TargetOf(v.o["$ref"].s).err = "none"
          THEN SelectedRefs(TargetOf(v.o["$ref"].s).val, sel, fuel - 1)
          ELSE {})
    ELSE UNION {SelectedRefs(v.o[k], IF k \in DOMAIN sel THEN sel[k] ELSE EmptySel,
                             fuel - 1) :
                   k \in {k \in DOMAIN v.o : sel = EmptySel \/ k \in DOMAIN sel}}

LastSelectedRefs ==
    UNION {SelectedRefs(LastRoot.o[k], LastSelections[k], InlineFuel) : k \in TopKeys}

\* C2: a reference under a key the selection tree does not select is never
\* passed to resolveRef, and loadJSON is never called for its document on
\* its behalf.
C2_Lazy ==
    Ran =>
        /\ \A i \in 1..Len(last.refCalls) : last.refCalls[i] \in LastSelectedRefs
        /\ \A i \in 1..Len(last.loadCalls) :
               \/ last.loadCalls[i] = last.entryFile
               \/ RelativePath(last.loadCalls[i]) \in {FileOf(r) : r \in LastSelectedRefs}

\* The reference strings whose target holds the same reference string.
RECURSIVE RefsIn(_)
RefsIn(v) ==
    IF v.t = "arr" THEN UNION {RefsIn(v.a[i]) : i \in 1..Len(v.a)}
    ELSE IF v.t # "obj" THEN {}
    ELSE IF isRef(v) THEN {v.o["$ref"].s}
    ELSE UNION {RefsIn(v.o[k]) : k \in DOMAIN v.o}

AllRefs == UNION {RefsIn(Files[p].json) : p \in DOMAIN Files}
SelfRefs == {r \in AllRefs : TargetOf(r).err = "none" /\ r \in RefsIn(TargetOf(r).val)}

CountCalls(log, r) == Cardinality({i \in 1..Len(log) : log[i] = r})

\* C3: a reference to the document that holds it is cut where it comes
\* round again: the resolver is called for it once to load its document
\* and once more, where it ends the cycle, and the query ends with the
\* circular-reference error or with a result.
C3_CycleSafe ==
    Ran => \A r \in SelfRefs :
              /\ CountCalls(last.refCalls, r) <= 2
              /\ CountCalls(last.refCalls, r) >= 1
                    => last.err \in {"none", "CircularReference"}

\* The number of references in a row from v on, each naming the next, and
\* the value the last of them names.
RECURSIVE ChainLen(_, _)
ChainLen(v, fuel) ==
    IF fuel > 0 /\ isRef(v) /\ TargetOf(v.o["$ref"].s).err = "none"
    THEN 1 + ChainLen(TargetOf(v.o["$ref"].s).val, fuel - 1)
    ELSE 0

RECURSIVE ChainEnd(_, _)
ChainEnd(v, fuel) ==
    IF fuel > 0 /\ isRef(v) /\ TargetOf(v.o["$ref"].s).err = "none"
    THEN ChainEnd(TargetOf(v.o["$ref"].s).val, fuel - 1)
    ELSE v

\* The last query selected one key, which the root document owns.
OneKey == Ran /\ Cardinality(DOMAIN LastSelections) = 1 /\ TopKeys = DOMAIN LastSelections
TheKey == CHOOSE k \in TopKeys : TRUE
TheChainLen == ChainLen(LastRoot.o[TheKey], InlineFuel)
TheChainEnd == ChainEnd(LastRoot.o[TheKey], InlineFuel)

\* C4 as stated: a chain of more than maxDepth references fails with the
\* max-depth error, and a chain of exactly maxDepth references succeeds.
C4_Original ==
    OneKey =>
        /\ TheChainLen > maxDepth => last.err = "MaxDepth"
        /\ TheChainLen = maxDepth => last.err = "none"

\* The value has something for resolveAllRefs to expand one level down.
HasChild(v, sel) ==
    \/ v.t = "arr" /\ v.a # <<>>
    \/ v.t = "obj" /\ (isRef(v) \/ \E k \in DOMAIN v.o : Selected(sel, k))

\* C4, amended: a chain of more than maxDepth references fails with the
\* max-depth error; a chain of exactly maxDepth references succeeds when
\* its final target has nothing to expand under the selection (a scalar,
\* an empty array, an object with no selected key) and fails with the
\* max-depth error when it has.
C4_DepthBound ==
    OneKey =>
        /\ TheChainLen > maxDepth => last.err = "MaxDepth"
        /\ TheChainLen = maxDepth =>
              IF HasChild(TheChainEnd, LastSelections[TheKey])
              THEN last.err = "MaxDepth"
              ELSE last.err = "none"

\* A chain of exactly maxDepth references, more than one, whose query
\* succeeded.
C4_Witness ==
    OneKey /\ TheChainLen = maxDepth /\ maxDepth >= 2 /\ last.err = "none"
           /\ last.val = Obj(TheKey :> TheChainEnd)

\* What resolveAllRefs gives the last query for the top-level key k.
Expanded(k) == resolveAllRefs(FreshEngine, LastRoot.o[k], LastSelections[k], 0)

\* The compound-leaf projection as C5 states it, of the value v that
\* filterResponse turned into `out` under `tree`: a compound value under an
\* empty tree gives the empty object, a scalar gives itself.
UnderEmptyTree(v, out) == IF IsObjectType(v) THEN out = EmptyObj ELSE out = v

\* The projection of a value under an empty tree: an object gives the empty
\* object, an array the array of its items' projections, a scalar itself.
RECURSIVE LeafProjection(_)
LeafProjection(v) ==
    IF v.t = "arr" THEN Arr([i \in 1..Len(v.a) |-> LeafProjection(v.a[i])])
    ELSE IF v.t = "obj" THEN EmptyObj
    ELSE v

\* Every value under an empty tree, in v projected to `out` under `tree`,
\* is projected as C5 states it (stated) or as amended.
RECURSIVE LeavesAre(_, _, _, _)
LeavesAre(stated, v, out, tree) ==
    IF tree = EmptySel
    THEN IF stated THEN UnderEmptyTree(v, out) ELSE out = LeafProjection(v)
    ELSE IF v.t = "arr"
    THEN /\ out.t = "arr" /\ Len(out.a) = Len(v.a)
         /\ \A i \in 1..Len(v.a) : LeavesAre(stated, v.a[i], out.a[i], tree)
    ELSE IF v.t = "obj"
    THEN /\ out.t = "obj"
         /\ \A k \in DOMAIN tree \cap DOMAIN v.o :
               /\ k \in DOMAIN out.o
               /\ LeavesAre(stated, v.o[k], out.o[k], tree[k])
    ELSE out = v

Succeeded == Ran /\ last.err = "none"

\* C5 as stated: a compound value, object or array, under an empty tree is
\* projected to the empty object, and a scalar to itself.
C5_Original ==
    Succeeded =>
        \A k \in TopKeys :
            LeavesAre(TRUE, Expanded(k).val, last.val.o[k], LastSelections[k])

\* C5, amended: an object under an empty tree is projected to the empty
\* object; an array to the array, of the same length, of its items
\* projected under the empty tree; a scalar to itself.
C5_CompoundLeaf ==
    Succeeded =>
        \A k \in TopKeys :
            LeavesAre(FALSE, Expanded(k).val, last.val.o[k], LastSelections[k])

\* A query that projected, under empty trees, an array holding a scalar, an
\* object and an array, and an object holding keys.
C5_Witness ==
    /\ Succeeded
    /\ \E k \in TopKeys :
          /\ LastSelections[k] = EmptySel
          /\ Expanded(k).val.t = "arr"
          /\ {Expanded(k).val.a[i].t : i \in 1..Len(Expanded(k).val.a)} = {"str", "obj", "arr"}
          /\ last.val.o[k].t = "arr"
    /\ \E k \in TopKeys :
          /\ LastSelections[k] = EmptySel
          /\ Expanded(k).val.t = "str"
          /\ last.val.o[k] = Expanded(k).val

\* What query gives on an engine with the options of this one, newly made,
\* and on one made with the cache disabled.
FreshOutcome == Outcome(query(FreshEngine, last.entryFile, last.queryStr))
UncachedOutcome ==
    Outcome(query([FreshEngine EXCEPT !.enableCache = FALSE],
                  last.entryFile, last.queryStr))
FreshLoads == query(FreshEngine, last.entryFile, last.queryStr).this.loadCalls

\* C6: whatever calls of query and clearCache came before, a query gives
\* the result, or the failure, that a new engine and an engine without
\* cache give for it.
C6_CacheTransparent ==
    last.op = "query" => Outcome(last) = FreshOutcome /\ Outcome(last) = UncachedOutcome

\* A second query that succeeded with the targets of references, one of
\* them with a fragment, all of them served by the cache: it loaded the
\* entry document alone, where a new engine loads more.
C6_Witness ==
    /\ Succeeded /\ enableCache /\ queries = 2
    /\ Len(last.refCalls) >= 2
    /\ \E i \in 1..Len(last.refCalls) : Len(split(last.refCalls[i], "#")) = 2
    /\ Len(last.loadCalls) = 1
    /\ Len(FreshLoads) > 2
    /\ last.val # EmptyObj

\* The top-level keys of the last query whose value is a reference to a
\* document that loadJSON cannot load, and those whose value is a reference
\* to a document it loads, with a fragment that cannot be navigated in it.
Unloadable(v) ==
    isRef(v) /\ loadJSON(split(v.o["$ref"].s, "#")[1]).err # "none"
Unnavigable(v) ==
    /\ isRef(v)
    /\ loadJSON(split(v.o["$ref"].s, "#")[1]).err = "none"
    /\ TargetOf(v.o["$ref"].s).err = "FragmentNotFound"

\* C7 as stated: a query that resolves a reference to a document that
\* cannot be loaded fails with the Document Store's error and gives no
\* result.
C7_Original ==
    Ran => \A k \in TopKeys :
              Unloadable(LastRoot.o[k]) =>
                  last.err \in {"NotFound", "ParseError"} /\ last.val = Undefined

\* C7, amended: a Document Store failure while resolving a reference is
\* not surfaced: the reference resolves to the empty object, and the query
\* gives it under the reference's key unless it fails with the max-depth
\* error; a Document Store failure on the entry document makes query fail
\* with that error and no result.
C7_Substituted ==
    /\ last.op = "query" /\ loadJSON(last.entryFile).err # "none"
          => last.err = loadJSON(last.entryFile).err /\ last.val = Undefined
    /\ Ran => \A k \in TopKeys :
                 Unloadable(LastRoot.o[k]) =>
                     /\ last.err \in {"none", "MaxDepth"}
                     /\ last.err = "none" => last.val.o[k] = EmptyObj

\* A query that succeeded with the empty object for a reference to a file
\* that does not exist, beside the target of a reference that resolved.
C7_Witness ==
    /\ Succeeded
    /\ \E k \in TopKeys :
          /\ Unloadable(LastRoot.o[k])
          /\ FileOf(LastRoot.o[k].o["$ref"].s) \notin DOMAIN Files
          /\ \E i \in 1..Len(last.loadCalls) :
                last.loadCalls[i] = split(LastRoot.o[k].o["$ref"].s, "#")[1]
          /\ last.val.o[k] = EmptyObj
    /\ \E k \in TopKeys : last.val.o[k].t = "str"

\* C8 as stated: a query that resolves a reference whose fragment cannot be
\* navigated fails with FragmentNotFound.
C8_Original ==
    Ran => \A k \in TopKeys :
              Unnavigable(LastRoot.o[k]) => last.err = "FragmentNotFound"

\* C8, amended: a reference whose fragment names a segment absent from the
\* loaded document, or passes through a value that is no object or array,
\* resolves to the empty object, and the query gives it under the
\* reference's key unless it fails with the max-depth error.
C8_FragmentSubstituted ==
    Ran => \A k \in TopKeys :
              Unnavigable(LastRoot.o[k]) =>
                  /\ last.err \in {"none", "MaxDepth"}
                  /\ last.err = "none" => last.val.o[k] = EmptyObj

\* A query that succeeded with the empty object for a fragment naming an
\* absent key and for a fragment through a string, beside the target of a
\* fragment that was navigated.
C8_Witness ==
    /\ Succeeded
    /\ \E k1, k2, k3 \in TopKeys :
          /\ Unnavigable(LastRoot.o[k1]) /\ Unnavigable(LastRoot.o[k2]) /\ k1 # k2
          /\ last.val.o[k1] = EmptyObj /\ last.val.o[k2] = EmptyObj
          /\ \E i \in 1..Len(last.loadCalls) :
                RelativePath(last.loadCalls[i]) = FileOf(LastRoot.o[k1].o["$ref"].s)
          /\ isRef(LastRoot.o[k3])
          /\ Len(split(LastRoot.o[k3].o["$ref"].s, "#")) = 2
          /\ TargetOf(LastRoot.o[k3].o["$ref"].s).err = "none"
          /\ last.val.o[k3] = TargetOf(LastRoot.o[k3].o["$ref"].s).val
          /\ last.val.o[k3].t = "str"

\* The items of the array that is the value of top-level key k, as
\* resolveAllRefs expands each of them alone.
ItemExpanded(k, i) ==
    resolveAllRefs(FreshEngine, LastRoot.o[k].a[i], LastSelections[k], 1)

\* C9: when the expansion of a selected top-level key, or of an item of the
\* array that is its value, fails with the max-depth error, the query
\* fails with it and gives no result, whatever the keys before and the
\* other items gave.
C9_NoPartial ==
    Ran =>
        \A k \in TopKeys :
            (\/ Expanded(k).err = "MaxDepth"
             \/ /\ LastRoot.o[k].t = "arr" /\ maxDepth >= 1
                /\ \E i \in 1..Len(LastRoot.o[k].a) : ItemExpanded(k, i).err = "MaxDepth")
            => last.err = "MaxDepth" /\ last.val = Undefined

\* A failed query over two keys: the first expands, and so do two items of
\* the array under the second, whose third item fails with the max-depth
\* error.
C9_Witness ==
    /\ Ran /\ last.err = "MaxDepth" /\ last.val = Undefined
    /\ \E k1, k2 \in TopKeys :
          /\ Expanded(k1).err = "none"
          /\ LastRoot.o[k2].t = "arr"
          /\ \E i, j \in 1..Len(LastRoot.o[k2].a) :
                /\ ItemExpanded(k2, i).err = "none"
                /\ ItemExpanded(k2, i).val = BigDoc
                /\ ItemExpanded(k2, j).err = "MaxDepth"

\* The object `out` that filterResponse made of the expanded object v under
\* `tree` holds the keys of the tree that v owns, and no other, and so do
\* the objects in it.
RECURSIVE ExactShape(_, _, _)
ExactShape(v, out, tree) ==
    IF v.t = "arr"
    THEN /\ out.t = "arr" /\ Len(out.a) = Len(v.a)
         /\ \A i \in 1..Len(v.a) : ExactShape(v.a[i], out.a[i], tree)
    ELSE IF v.t = "obj"
    THEN /\ out.t = "obj"
         /\ DOMAIN out.o = DOMAIN tree \cap DOMAIN v.o
         /\ \A k \in DOMAIN tree \cap DOMAIN v.o : ExactShape(v.o[k], out.o[k], tree[k])
    ELSE TRUE

\* C10: the result of a query holds the top-level keys of the selection
\* tree that the root document owns, and no other; every object in it that
\* was projected against a tree holds the keys of the tree that the
\* expanded value owns, and no other.
C10_ExactShape ==
    Succeeded /\ LastRoot.t = "obj" =>
        /\ last.val.t = "obj"
        /\ DOMAIN last.val.o = TopKeys
        /\ \A k \in TopKeys : ExactShape(Expanded(k).val, last.val.o[k], LastSelections[k])

---------------------------------------------------------------------------
(* The claims about the engine call by call.                               *)

\* The projection of the expansion of item i of the array under top-level
\* key k, the item expanded on its own.
ItemProjected(k, i) == filterResponse(ItemExpanded(k, i).val, LastSelections[k])

\* C11: the array a query gives for a top-level key whose value is an array
\* has the length of that array, and its i-th item is the projection of
\* the expansion of the array's i-th item, in whatever order the
\* expansions of the items ended.
C11_OrderPreserved ==
    Succeeded /\ LastRoot.t = "obj" =>
        \A k \in TopKeys :
            LastRoot.o[k].t = "arr" =>
                /\ last.val.o[k].t = "arr"
                /\ Len(last.val.o[k].a) = Len(LastRoot.o[k].a)
                /\ \A i \in 1..Len(LastRoot.o[k].a) :
                       last.val.o[k].a[i] = ItemProjected(k, i)

\* A query that succeeded with an array of two different items, the
\* expansion of an item having ended before that of the item before it.
C11_Witness ==
    /\ Succeeded /\ last.outOfOrder
    /\ \E k \in TopKeys :
          /\ LastRoot.o[k].t = "arr" /\ Len(LastRoot.o[k].a) >= 2
          /\ last.val.o[k].a[1] # last.val.o[k].a[2]

\* What a query gives under `sel` for a reference at depth `depth` whose
\* target is the value v: the projection of the expansion of v, one level
\* deeper.
OfTarget(v, sel, depth) ==
    filterResponse(resolveAllRefs(FreshEngine, v, sel, depth + 1).val, sel)

Resolves(v) == isRef(v) /\ TargetOf(v.o["$ref"].s).err = "none"

\* C12: whichever way resolveRef returns a value for a reference (from the
\* cache, from the document, from the fragment, or the empty object for a
\* document or a fragment that fails), the reference is not in visitedRefs
\* afterwards; and a query that succeeds gives, for every top-level key
\* and every item of a top-level array that holds a reference that
\* resolves, what it gives for the reference's target, also when the same
\* reference was resolved before in the query.
C12_VisitedCleared ==
    /\ \A r \in AllRefs, d \in 0..maxDepth :
           r \notin resolveRef(Engine, r, d).this.visitedRefs
    /\ Succeeded /\ LastRoot.t = "obj" =>
           \A k \in TopKeys :
               /\ Resolves(LastRoot.o[k]) =>
                      last.val.o[k] =
                          OfTarget(TargetOf(LastRoot.o[k].o["$ref"].s).val,
                                   LastSelections[k], 0)
               /\ LastRoot.o[k].t = "arr" =>
                      \A i \in 1..Len(LastRoot.o[k].a) :
                          Resolves(LastRoot.o[k].a[i]) =>
                              last.val.o[k].a[i] =
                                  OfTarget(TargetOf(LastRoot.o[k].a[i].o["$ref"].s).val,
                                           LastSelections[k], 1)

\* A query that succeeded with the target of the same reference under two
\* top-level keys, on an engine whose cache holds a reference, and for
\* which references that fail to load and to navigate are at hand.
C12_Witness ==
    /\ Succeeded
    /\ \E k1, k2 \in TopKeys :
          /\ k1 # k2
          /\ Resolves(LastRoot.o[k1])
          /\ LastRoot.o[k1] = LastRoot.o[k2]
          /\ last.val.o[k1] = last.val.o[k2]
          /\ last.val.o[k1] # EmptyObj
          /\ CountCalls(last.refCalls, LastRoot.o[k1].o["$ref"].s) = 2
    /\ cache # <<>>
    /\ \E r1, r2 \in AllRefs :
          /\ loadJSON(split(r1, "#")[1]).err # "none"
          /\ loadJSON(split(r2, "#")[1]).err = "none"
          /\ TargetOf(r2).err # "none"

\* C13: clearCache leaves the cache with no entry, and a query during which
\* clearCache was called, at whichever of its awaits, gives the result, or
\* the failure, that a new engine gives for it.
C13_ClearInFlight ==
    /\ clearCache(Engine).cache = <<>>
    /\ last.op = "query" /\ last.cleared => Outcome(last) = FreshOutcome

\* A query that succeeded after clearCache emptied, while it was in flight,
\* a cache that held an entry, and that resolved a reference after that.
C13_Witness ==
    /\ last.op = "query" /\ last.cleared /\ last.err = "none"
    /\ last.entryFile = <<"/", "books">>
    /\ last.val # EmptyObj
    /\ <<"/", "a1">> \in DOMAIN cache

\* C14 as stated: a query whose text the parser rejects fails with the
\* syntax error, and loadJSON is called for no document, the entry
\* document included.
C14_Original ==
    last.op = "query" /\ ~last.queryStr.ok =>
        /\ last.err = "Syntax"
        /\ last.loadCalls = <<>>
        /\ last.refCalls = <<>>

\* C14, amended: query loads the entry document before it parses the text.
\* A query whose text the parser rejects has called loadJSON for the entry
\* document, once, and for no other document, and has resolved no
\* reference; it fails with the error of that load when the load fails,
\* and with the syntax error when it succeeds.
C14_LoadFirst ==
    last.op = "query" /\ ~last.queryStr.ok =>
        /\ last.loadCalls = <<last.entryFile>>
        /\ last.refCalls = <<>>
        /\ last.val = Undefined
        /\ last.err = IF loadJSON(last.entryFile).err # "none"
                      THEN loadJSON(last.entryFile).err
                      ELSE "Syntax"

\* A query with a text the parser rejects, over an entry document that
\* loads and holds references, that failed with the syntax error.
C14_Witness ==
    /\ last.op = "query" /\ ~last.queryStr.ok
    /\ last.err = "Syntax"
    /\ loadJSON(last.entryFile).err = "none"
    /\ RefsIn(loadJSON(last.entryFile).val) # {}
    /\ last.loadCalls = <<last.entryFile>>

\* The scalars in v, each with the depth at which resolveAllRefs comes to
\* it when v is expanded at depth d and every key is selected, those
\* behind a reference left out.
RECURSIVE ScalarsAt(_, _)
ScalarsAt(v, d) ==
    IF v.t = "arr" THEN UNION {ScalarsAt(v.a[i], d + 1) : i \in 1..Len(v.a)}
    ELSE IF v.t # "obj" THEN {<<v, d>>}
    ELSE IF isRef(v) THEN {}
    ELSE UNION {ScalarsAt(v.o[k], d + 1) : k \in DOMAIN v.o}

\* The scalars of the documents that a query reaches without a reference,
\* the value of a top-level key being expanded at depth 0.
TopScalars(file) ==
    IF file.ok /\ file.json.t = "obj"
    THEN UNION {ScalarsAt(file.json.o[k], 0) : k \in DOMAIN file.json.o}
    ELSE {}
ReachableScalars == UNION {TopScalars(Files[p]) : p \in DOMAIN Files}

\* The selection trees of the queries, and the trees in them.
RECURSIVE TreesIn(_)
TreesIn(tree) == {tree} \cup UNION {TreesIn(tree[k]) : k \in DOMAIN tree}
Trees == UNION {TreesIn(processNestedQuery(c.queryStr)) : c \in Calls}

\* C15 as stated: resolveAllRefs gives every scalar reachable without a
\* reference back unchanged, under every selection tree, and projecting
\* what it gave under the empty tree gives the scalar.
C15_Original ==
    \A sd \in ReachableScalars, tree \in Trees :
        /\ resolveAllRefs(Engine, sd[1], tree, sd[2]) = Return(sd[1], Engine)
        /\ filterResponse(resolveAllRefs(Engine, sd[1], EmptySel, sd[2]).val, EmptySel)
              = sd[1]

\* C15, amended: resolveAllRefs gives a scalar reachable without a
\* reference back unchanged, under every selection tree, when the scalar
\* is at a depth of at most maxDepth, and projecting what it gave under
\* the empty tree gives the scalar; for a scalar deeper than maxDepth it
\* fails with the max-depth error.
C15_ScalarsPass ==
    \A sd \in ReachableScalars, tree \in Trees :
        IF sd[2] <= maxDepth
        THEN /\ resolveAllRefs(Engine, sd[1], tree, sd[2]) = Return(sd[1], Engine)
             /\ filterResponse(resolveAllRefs(Engine, sd[1], EmptySel, sd[2]).val,
                               EmptySel) = sd[1]
        ELSE resolveAllRefs(Engine, sd[1], tree, sd[2]) = Throw("MaxDepth", Engine)

\* A query that selects no reference and failed with the max-depth error
\* for a scalar deeper than maxDepth, on an engine that gave the scalars
\* of the top level back: null, a string.
C15_Witness ==
    /\ Ran /\ last.err = "MaxDepth"
    /\ LastSelectedRefs = {}
    /\ last.refCalls = <<>>
    /\ \E sd \in ReachableScalars : sd[2] > maxDepth
    /\ \E sd1, sd2 \in ReachableScalars :
          /\ sd1[1] = Null /\ sd2[1].t = "str"
          /\ sd1[2] <= maxDepth /\ sd2[2] <= maxDepth

\* The call c of query is in flight.
Flying(c) ==
    \E id \in 1..Len(pool) :
        pool[id].k = "query" /\ pool[id].call = c /\ pool[id].out.st = "pending"

\* No call of resolveAllRefs in its loop is deeper than maxDepth.
DepthBounded ==
    \A id \in 1..Len(pool) : pool[id].k = "loop" => pool[id].depth <= maxDepth

\* C16: no call of resolveAllRefs goes past its depth check at a depth
\* above maxDepth, so that no call is nested in more than maxDepth + 1
\* calls, and every call of query, over documents that refer to each other
\* in a cycle too, ends, with a result or with an error.
C16_Terminates ==
    /\ []DepthBounded
    /\ \A c \in AsyncCalls : Flying(c) ~> ~Flying(c)

\* The query over the two documents that refer to each other has ended,
\* with the max-depth error, on the engine of the default maximum depth.
C16_Witness ==
    /\ last.op = "query" /\ last.entryFile = <<"ping">>
    /\ last.err = "MaxDepth"
    /\ maxDepth = DefaultMaxDepth
    /\ script = {}
    /\ pool = <<>>

\* Items i and j of the array under top-level key k are objects that hold
\* the same reference, one that resolves, under the selected key f.
SameReference(k, i, j, f) ==
    LET a == LastRoot.o[k].a[i]
        b == LastRoot.o[k].a[j]
    IN  /\ a.t = "obj" /\ b.t = "obj" /\ ~isRef(a) /\ ~isRef(b)
        /\ f \in DOMAIN a.o \cap DOMAIN b.o
        /\ a.o[f] = b.o[f]
        /\ Resolves(a.o[f])

\* What the query gives for the reference that item i of the array under
\* top-level key k holds under key f: the reference is at depth 2.
OfItemTarget(k, i, f) ==
    OfTarget(TargetOf(LastRoot.o[k].a[i].o[f].o["$ref"].s).val, LastSelections[k][f], 2)

\* C17: in every interleaving of the turns of the items of an array and of
\* two overlapping calls of query on one engine, visitedRefs is empty
\* between any two turns and whenever resolveRef is entered, so that the
\* circular-reference branch of resolveRef is never taken, and two items
\* of an array that hold the same reference both get its target.
C17_VisitedEmpty ==
    /\ visitedRefs = {}
    /\ dirtyRefs = {}
    /\ Succeeded /\ LastRoot.t = "obj" =>
           \A k \in TopKeys :
               LastRoot.o[k].t = "arr" =>
                   \A i, j \in 1..Len(LastRoot.o[k].a) :
                       \A f \in DOMAIN LastSelections[k] :
                           SameReference(k, i, j, f) =>
                               /\ last.val.o[k].a[i].o[f] = OfItemTarget(k, i, f)
                               /\ last.val.o[k].a[j].o[f] = OfItemTarget(k, i, f)
                               /\ OfItemTarget(k, i, f) # EmptyObj

\* The query over the books, two of which hold the reference to the same
\* author, has succeeded, the turns of the two books interleaved, while the
\* other call of query is in flight.
C17_Witness ==
    /\ Succeeded /\ last.outOfOrder
    /\ \E c \in AsyncCalls : Flying(c)
    /\ \E k \in TopKeys :
          /\ LastRoot.o[k].t = "arr"
          /\ \E i, j \in 1..Len(LastRoot.o[k].a) :
                /\ i # j
                /\ \E f \in DOMAIN LastSelections[k] : SameReference(k, i, j, f)

\* C18: every entry of the cache maps a reference string to the value that
\* loading its document and navigating its fragment gives, so that the
\* empty object given for a document or a fragment that fails is never an
\* entry; and the cache of an engine made with enableCache false is empty.
C18_CacheCoherent ==
    /\ \A r \in DOMAIN cache :
           /\ TargetOf(r).err = "none"
           /\ cache[r] = TargetOf(r).val
    /\ ~enableCache => cache = <<>>

\* A query on a caching engine has resolved a reference with a fragment,
\* which is in the cache, and a reference whose document or fragment
\* fails, which is not.
C18_Witness ==
    /\ enableCache /\ last.op = "query"
    /\ \E i, j \in 1..Len(last.refCalls) :
          /\ Len(split(last.refCalls[i], "#")) >= 2
          /\ last.refCalls[i] \in DOMAIN cache
          /\ TargetOf(last.refCalls[j]).err # "none"
          /\ last.refCalls[j] \notin DOMAIN cache

=============================================================================
